---------------------------- MODULE Spec2Model ----------------------------
(***************************************************************************)
(* A model of the `dig` crate (src/src/lib.rs): an Environment owning      *)
(* containers, grabbers and grabber states, driven from outside by         *)
(* add_container, add_grabber, grab, update and volume_of_container.       *)
(*                                                                         *)
(* Volumes and times are f64 in the source, which only adds, subtracts and  *)
(* compares them.  They are modelled as binary floating-point numbers with *)
(* a significand of MantissaBits bits (53 in f64) and integer values: the  *)
(* integers of magnitude up to 2^MantissaBits and, beyond, the multiples   *)
(* of the unit in the last place.  A sum or difference is rounded to the   *)
(* nearest such number, ties to the even significand, as in IEEE 754.      *)
(* Spec and SpecAnyVolume keep every value in the range where the          *)
(* arithmetic is exact; SpecFloat and SpecLive leave it.  The source       *)
(* validates none of its inputs: negative deltas, zero durations and       *)
(* (under SpecAnyVolume) zero and negative capacities are inputs of the    *)
(* model too.                                                              *)
(*                                                                         *)
(* Vec indices are 0-based in the source and sequences are 1-based here:   *)
(* a handle h (ContainerId(h), GrabberId(h)) denotes element h + 1.        *)
(***************************************************************************)
EXTENDS Integers, Sequences, FiniteSets, TLC

(***************************************************************************)
(* Bounds of the model.                                                    *)
(***************************************************************************)
MaxContainers == 2
MaxGrabbers == 2
\* initial amounts of add_container: 0..MaxAmount
MaxAmount == 2
\* capacities of add_grabber: 1..MaxVolume, and with them 0 and a negative
\* one where the driver is not held to the documented capacities
MaxVolume == 2
\* durations of add_grabber: 0 and MaxTime
MaxTime == 2
\* deltas of update: -1..MaxDelta
MaxDelta == 2
\* a container amount stays within -AmountCap..AmountCap and a remaining
\* time at or below TimeCap: a call that would leave the window is not issued
AmountCap == 4
TimeCap == 2
\* a Container on its own holds an amount within -ProbeCap..ProbeCap
ProbeCap == 4
\* bits of the significand of a number (53 in f64)
MantissaBits == 3
\* containers of the environment whose driver keeps calling update
LiveContainers == 1

Amounts == 0..MaxAmount
Volumes == 1..MaxVolume
AnyVolumes == (0 - 1)..MaxVolume
Times == {0, MaxTime}
Deltas == (0 - 1)..MaxDelta
ForwardDeltas == 0..MaxDelta
ProbeValues == (0 - ProbeCap)..ProbeCap

VARIABLES
    containers,      \* Environment::containers : Seq of amounts (Container.0)
    grabbers,        \* Environment::grabbers : Seq of Grabber records
    grabber_states,  \* Environment::grabber_states : Seq of GrabberState records
    last,            \* the driver's last call and what it returned
    cycles,          \* observer: per grabber, its transfer cycle since grab
    probe            \* a Container on its own, and the last call on it

vars == <<containers, grabbers, grabber_states, last, cycles, probe>>

env == <<containers, grabbers, grabber_states>>

(***************************************************************************)
(* Handles.                                                                *)
(***************************************************************************)
ContainerIds == 0..(Len(containers) - 1)
GrabberIds == 0..(Len(grabbers) - 1)

At(s, id) == s[id + 1]

(***************************************************************************)
(* f64 arithmetic: the result of + and - is the exact result rounded to    *)
(* the nearest number of MantissaBits significant bits, ties to even.      *)
(***************************************************************************)
RECURSIVE Pow2(_)
Pow2(n) == IF n = 0 THEN 1 ELSE 2 * Pow2(n - 1)

\* every integer of magnitude up to ExactLimit is a number
ExactLimit == Pow2(MantissaBits)

\* the unit in the last place of a magnitude m
RECURSIVE Ulp(_)
Ulp(m) == IF m < ExactLimit THEN 1 ELSE 2 * Ulp(m \div 2)

RoundMagnitude(m) ==
    LET u == Ulp(m)
        q == m \div u
        r == m % u
    IN  IF 2 * r < u THEN q * u
        ELSE IF 2 * r > u THEN (q + 1) * u
        ELSE IF q % 2 = 0 THEN q * u
        ELSE (q + 1) * u

Round(x) ==
    IF x < 0 - ExactLimit THEN 0 - RoundMagnitude(0 - x)
    ELSE IF x > ExactLimit THEN RoundMagnitude(x)
    ELSE x

(***************************************************************************)
(* Container::put and Container::take on an amount c.                      *)
(***************************************************************************)
\* put that assigns where the source adds (self.0 = v)
put_assign(c, v) == v

put(c, v) == Round(c + v)

\* take without the test against the amount held
take_unclamped(c, v) == [amount |-> c - v, ret |-> v]

take(c, v) ==
    IF c <= v
    THEN [amount |-> 0, ret |-> c]
    ELSE [amount |-> Round(c - v), ret |-> v]

(***************************************************************************)
(* Records.                                                                *)
(***************************************************************************)
Grabber(volume, time, source, target) ==
    [volume |-> volume, time |-> time, source |-> source, target |-> target]

GrabberState(time, volume) == [time |-> time, volume |-> volume]

\* a new grabber pushed with time on its clock
NewGrabberStateBusy == GrabberState(MaxTime, 0)

\* the state add_grabber pushes for a new grabber
NewGrabberState == GrabberState(0, 0)

\* a call of the driver: the operation, its handle argument, whether it
\* returned Ok (grab returns Err when busy) and the number it returned (a
\* handle, a volume)
Call(op, id, ok, ret) == [op |-> op, id |-> id, ok |-> ok, ret |-> ret]

(***************************************************************************)
(* Environment::grab as a function of the environment: the result and the  *)
(* containers and grabber states after the call.                           *)
(***************************************************************************)
\* grab without the test of the remaining time
grab_unguarded(cs, gs, ss, gid) ==
    LET g == At(gs, gid)
        t == take(At(cs, g.source), g.volume)
    IN  [ok |-> TRUE,
         containers |-> [cs EXCEPT ![g.source + 1] = t.amount],
         grabber_states |->
             [ss EXCEPT ![gid + 1] = GrabberState(g.time, t.ret)]]

\* grab that records the capacity v where the source records v2
grab_capacity(cs, gs, ss, gid) ==
    IF At(ss, gid).time = 0
    THEN LET g == At(gs, gid)
             v == g.volume
             t == take(At(cs, g.source), v)
         IN  [ok |-> TRUE,
              containers |-> [cs EXCEPT ![g.source + 1] = t.amount],
              grabber_states |->
                  [ss EXCEPT ![gid + 1] = GrabberState(g.time, v)]]
    ELSE [ok |-> FALSE, containers |-> cs, grabber_states |-> ss]

\* grab that empties what the other grabbers carry
grab_emptying(cs, gs, ss, gid) ==
    IF At(ss, gid).time = 0
    THEN LET g == At(gs, gid)
             v == g.volume
             t == take(At(cs, g.source), v)
         IN  [ok |-> TRUE,
              containers |-> [cs EXCEPT ![g.source + 1] = t.amount],
              grabber_states |->
                  [k \in 1..Len(ss) |->
                      IF k = gid + 1
                      THEN GrabberState(g.time, t.ret)
                      ELSE GrabberState(ss[k].time, 0)]]
    ELSE [ok |-> FALSE, containers |-> cs, grabber_states |-> ss]

\* grab that puts what it took into the target at once
grab_delivering(cs, gs, ss, gid) ==
    IF At(ss, gid).time = 0
    THEN LET g == At(gs, gid)
             v == g.volume
             t == take(At(cs, g.source), v)
             taken == [cs EXCEPT ![g.source + 1] = t.amount]
         IN  [ok |-> TRUE,
              containers |->
                  [taken EXCEPT ![g.target + 1] =
                                    put(At(taken, g.target), t.ret)],
              grabber_states |->
                  [ss EXCEPT ![gid + 1] = GrabberState(g.time, t.ret)]]
    ELSE [ok |-> FALSE, containers |-> cs, grabber_states |-> ss]

grab(cs, gs, ss, gid) ==
    IF At(ss, gid).time = 0
    THEN LET g == At(gs, gid)
             v == g.volume
             t == take(At(cs, g.source), v)
         IN  [ok |-> TRUE,
              containers |-> [cs EXCEPT ![g.source + 1] = t.amount],
              grabber_states |->
                  [ss EXCEPT ![gid + 1] = GrabberState(g.time, t.ret)]]
    ELSE [ok |-> FALSE, containers |-> cs, grabber_states |-> ss]

(***************************************************************************)
(* One iteration of the loop of Environment::update, for grabber i.        *)
(***************************************************************************)
\* update that puts the capacity g.volume where the source puts s.volume
update_one_capacity(cs, gs, ss, i, dt) ==
    LET time == At(ss, i).time - dt
    IN  IF time <= 0
        THEN LET g == At(gs, i)
             IN  [containers |->
                      [cs EXCEPT ![g.target + 1] =
                                     put(At(cs, g.target), g.volume)],
                  grabber_states |-> [ss EXCEPT ![i + 1] = GrabberState(0, 0)]]
        ELSE [containers |-> cs,
              grabber_states |->
                  [ss EXCEPT ![i + 1] = GrabberState(time, At(ss, i).volume)]]

\* update that puts the volume before it tests the time
update_one_eager(cs, gs, ss, i, dt) ==
    LET time == At(ss, i).time - dt
        g == At(gs, i)
        put_cs == [cs EXCEPT ![g.target + 1] =
                                 put(At(cs, g.target), At(ss, i).volume)]
    IN  IF time <= 0
        THEN [containers |-> put_cs,
              grabber_states |-> [ss EXCEPT ![i + 1] = GrabberState(0, 0)]]
        ELSE [containers |-> put_cs,
              grabber_states |-> [ss EXCEPT ![i + 1] = GrabberState(time, 0)]]

\* update that leaves the time it went below 0 at
update_one_unclamped(cs, gs, ss, i, dt) ==
    LET time == At(ss, i).time - dt
    IN  IF time <= 0
        THEN LET g == At(gs, i)
             IN  [containers |->
                      [cs EXCEPT ![g.target + 1] =
                                     put(At(cs, g.target), At(ss, i).volume)],
                  grabber_states |->
                      [ss EXCEPT ![i + 1] = GrabberState(time, 0)]]
        ELSE [containers |-> cs,
              grabber_states |->
                  [ss EXCEPT ![i + 1] = GrabberState(time, At(ss, i).volume)]]

\* update that tests the decremented time against dt where the source tests
\* it against 0
update_one_twice(cs, gs, ss, i, dt) ==
    LET time == At(ss, i).time - dt
    IN  IF time <= dt
        THEN LET g == At(gs, i)
             IN  [containers |->
                      [cs EXCEPT ![g.target + 1] =
                                     put(At(cs, g.target), At(ss, i).volume)],
                  grabber_states |-> [ss EXCEPT ![i + 1] = GrabberState(0, 0)]]
        ELSE [containers |-> cs,
              grabber_states |->
                  [ss EXCEPT ![i + 1] = GrabberState(time, At(ss, i).volume)]]

\* update that completes a grabber only once its time is below 0, where the
\* source completes it at 0 too
update_one_strict(cs, gs, ss, i, dt) ==
    LET time == At(ss, i).time - dt
    IN  IF time < 0
        THEN LET g == At(gs, i)
             IN  [containers |->
                      [cs EXCEPT ![g.target + 1] =
                                     put(At(cs, g.target), At(ss, i).volume)],
                  grabber_states |-> [ss EXCEPT ![i + 1] = GrabberState(0, 0)]]
        ELSE [containers |-> cs,
              grabber_states |->
                  [ss EXCEPT ![i + 1] = GrabberState(time, At(ss, i).volume)]]

\* update that sets a completed grabber to its duration where the source
\* sets it to 0
update_one_restart(cs, gs, ss, i, dt) ==
    LET time == At(ss, i).time - dt
    IN  IF time <= 0
        THEN LET g == At(gs, i)
             IN  [containers |->
                      [cs EXCEPT ![g.target + 1] =
                                     put(At(cs, g.target), At(ss, i).volume)],
                  grabber_states |->
                      [ss EXCEPT ![i + 1] = GrabberState(g.time, 0)]]
        ELSE [containers |-> cs,
              grabber_states |->
                  [ss EXCEPT ![i + 1] = GrabberState(time, At(ss, i).volume)]]

\* update that leaves the remaining time as it is
update_one_still(cs, gs, ss, i, dt) ==
    LET time == At(ss, i).time
    IN  IF time <= 0
        THEN LET g == At(gs, i)
             IN  [containers |->
                      [cs EXCEPT ![g.target + 1] =
                                     put(At(cs, g.target), At(ss, i).volume)],
                  grabber_states |-> [ss EXCEPT ![i + 1] = GrabberState(0, 0)]]
        ELSE [containers |-> cs,
              grabber_states |->
                  [ss EXCEPT ![i + 1] = GrabberState(time, At(ss, i).volume)]]

update_one(cs, gs, ss, i, dt) ==
    LET time == Round(At(ss, i).time - dt)
    IN  IF time <= 0
        THEN LET g == At(gs, i)
             IN  [containers |->
                      [cs EXCEPT ![g.target + 1] =
                                     put(At(cs, g.target), At(ss, i).volume)],
                  grabber_states |-> [ss EXCEPT ![i + 1] = GrabberState(0, 0)]]
        ELSE [containers |-> cs,
              grabber_states |->
                  [ss EXCEPT ![i + 1] = GrabberState(time, At(ss, i).volume)]]

(***************************************************************************)
(* The loop of Environment::update over the grabbers order[k..], in that   *)
(* order.  The source runs it over 0..n-1.                                 *)
(***************************************************************************)
RECURSIVE update_loop(_, _, _, _, _, _)
update_loop(cs, gs, ss, order, k, dt) ==
    IF k > Len(order)
    THEN [containers |-> cs, grabber_states |-> ss]
    ELSE LET r == update_one(cs, gs, ss, order[k], dt)
         IN  update_loop(r.containers, gs, r.grabber_states, order, k + 1, dt)

SourceOrder(n) == [k \in 1..n |-> k - 1]

update(cs, gs, ss, dt) == update_loop(cs, gs, ss, SourceOrder(Len(gs)), 1, dt)

(***************************************************************************)
(* Environment::volume_of_container.                                       *)
(***************************************************************************)
volume_of_container(cs, c) == At(cs, c)

(***************************************************************************)
(* The window the model keeps the values in.                               *)
(***************************************************************************)
InWindow(cs, ss) ==
    /\ \A k \in 1..Len(cs) : cs[k] \in (0 - AmountCap)..AmountCap
    /\ \A k \in 1..Len(ss) : ss[k].time <= TimeCap

(***************************************************************************)
(* The observer.  For each grabber it follows the transfer cycle begun by  *)
(* the last successful grab:                                               *)
(*   phase    "none", "flying" (grabbed, not yet put in the target) or     *)
(*            "landed" (put in the target by an update)                    *)
(*   elapsed  the sum of the deltas of the update calls since that grab,   *)
(*            up to and including the one that landed it                   *)
(*   clean    since that grab only update calls were made, and in them no  *)
(*            other grabber put a non-zero volume into its source or       *)
(*            target                                                       *)
(*   src0, tgt0  the amounts of its source and target before that grab,    *)
(*            kept while clean                                             *)
(* A landed cycle is followed while it is clean.                           *)
(***************************************************************************)
Cycle(phase, elapsed, src0, tgt0, clean) ==
    [phase |-> phase, elapsed |-> elapsed, src0 |-> src0, tgt0 |-> tgt0,
     clean |-> clean]

NoCycle == Cycle("none", 0, 0, 0, FALSE)

\* a call other than update was made
Disturbed(c) ==
    IF c.phase = "flying"
    THEN Cycle("flying", c.elapsed, 0, 0, FALSE)
    ELSE NoCycle

\* grabber i puts its volume into its target in update(dt)
Lands(ss, i, dt) == At(ss, i).time - dt <= 0

\* in update(dt) a grabber other than i puts a non-zero volume into the
\* source or the target of i
OtherPut(gs, ss, i, dt) ==
    \E j \in 0..(Len(gs) - 1) :
        /\ j # i
        /\ Lands(ss, j, dt)
        /\ At(ss, j).volume # 0
        /\ At(gs, j).target \in {At(gs, i).source, At(gs, i).target}

AfterGrab(cy, cs, gs, gid, ok) ==
    [k \in 1..Len(cy) |->
        IF k = gid + 1 /\ ok
        THEN Cycle("flying", 0, At(cs, At(gs, gid).source),
                   At(cs, At(gs, gid).target), TRUE)
        ELSE Disturbed(cy[k])]

AfterUpdateOne(c, gs, ss, i, dt) ==
    LET clean == c.clean /\ ~OtherPut(gs, ss, i, dt)
    IN  CASE c.phase = "flying" ->
                IF Lands(ss, i, dt)
                THEN IF clean
                     THEN Cycle("landed", c.elapsed + dt, c.src0, c.tgt0, TRUE)
                     ELSE NoCycle
                ELSE Cycle("flying", c.elapsed + dt,
                           IF clean THEN c.src0 ELSE 0,
                           IF clean THEN c.tgt0 ELSE 0, clean)
          [] c.phase = "landed" -> IF clean THEN c ELSE NoCycle
          [] OTHER -> c

AfterUpdate(cy, gs, ss, dt) ==
    [k \in 1..Len(cy) |-> AfterUpdateOne(cy[k], gs, ss, k - 1, dt)]

AfterOther(cy) == [k \in 1..Len(cy) |-> Disturbed(cy[k])]

(***************************************************************************)
(* A Container used on its own, as in tests::take_from_container: the      *)
(* amount c it holds, and the last call with its argument v, the amount    *)
(* before it and what it returned.                                         *)
(***************************************************************************)
Probe(c, op, v, before, ret) ==
    [c |-> c, op |-> op, v |-> v, before |-> before, ret |-> ret]

NoProbe == Probe(0, "none", 0, 0, 0)

(***************************************************************************)
(* Environment::new.                                                       *)
(***************************************************************************)
Init ==
    /\ containers = <<>>
    /\ grabbers = <<>>
    /\ grabber_states = <<>>
    /\ last = Call("new", 0, TRUE, 0)
    /\ cycles = <<>>
    /\ probe = NoProbe

(***************************************************************************)
(* The calls of the driver.  A grabber is created with the handles of      *)
(* containers that exist, and every call is given a handle that exists:    *)
(* the source indexes its Vecs with them unchecked.                        *)
(***************************************************************************)
AddContainer(c) ==
    /\ Len(containers) < MaxContainers
    /\ containers' = Append(containers, c)
    /\ last' = Call("add_container", 0, TRUE, Len(containers))
    /\ cycles' = AfterOther(cycles)
    /\ UNCHANGED <<grabbers, grabber_states, probe>>

AddGrabber(g) ==
    /\ Len(grabbers) < MaxGrabbers
    /\ grabbers' = Append(grabbers, g)
    /\ grabber_states' = Append(grabber_states, NewGrabberState)
    /\ last' = Call("add_grabber", 0, TRUE, Len(grabbers))
    /\ cycles' = Append(AfterOther(cycles), NoCycle)
    /\ UNCHANGED <<containers, probe>>

Grab(gid) ==
    LET r == grab(containers, grabbers, grabber_states, gid)
    IN  /\ InWindow(r.containers, r.grabber_states)
        /\ containers' = r.containers
        /\ grabber_states' = r.grabber_states
        /\ last' = Call("grab", gid, r.ok, 0)
        /\ cycles' = AfterGrab(cycles, containers, grabbers, gid, r.ok)
        /\ UNCHANGED <<grabbers, probe>>

Update(dt) ==
    LET r == update(containers, grabbers, grabber_states, dt)
    IN  /\ InWindow(r.containers, r.grabber_states)
        /\ containers' = r.containers
        /\ grabber_states' = r.grabber_states
        /\ last' = Call("update", 0, TRUE, 0)
        /\ cycles' = AfterUpdate(cycles, grabbers, grabber_states, dt)
        /\ UNCHANGED <<grabbers, probe>>

VolumeOfContainer(c) ==
    /\ last' = Call("volume_of_container", c, TRUE,
                    volume_of_container(containers, c))
    /\ cycles' = AfterOther(cycles)
    /\ UNCHANGED <<containers, grabbers, grabber_states, probe>>

Step(volumes, deltas) ==
    \/ \E c \in Amounts : AddContainer(c)
    \/ \E volume \in volumes, time \in Times,
          source \in ContainerIds, target \in ContainerIds :
              AddGrabber(Grabber(volume, time, source, target))
    \/ \E gid \in GrabberIds : Grab(gid)
    \/ \E dt \in deltas : Update(dt)
    \/ \E c \in ContainerIds : VolumeOfContainer(c)

\* the driver creates grabbers of positive capacity and advances by any delta
Next == Step(Volumes, Deltas)

Spec == Init /\ [][Next]_vars

\* the driver creates grabbers of any capacity (add_grabber checks none) and
\* advances by non-negative deltas
NextAnyVolume == Step(AnyVolumes, ForwardDeltas)

SpecAnyVolume == Init /\ [][NextAnyVolume]_vars

(***************************************************************************)
(* A Container on its own: Container(c), then take and put calls on it.    *)
(***************************************************************************)
InitContainer ==
    /\ containers = <<>>
    /\ grabbers = <<>>
    /\ grabber_states = <<>>
    /\ last = Call("new", 0, TRUE, 0)
    /\ cycles = <<>>
    /\ \E c \in ProbeValues : probe = Probe(c, "new", 0, c, 0)

Take(v) ==
    LET t == take(probe.c, v)
    IN  /\ t.amount \in ProbeValues
        /\ probe' = Probe(t.amount, "take", v, probe.c, t.ret)
        /\ UNCHANGED <<containers, grabbers, grabber_states, last, cycles>>

Put(v) ==
    /\ put(probe.c, v) \in ProbeValues
    /\ probe' = Probe(put(probe.c, v), "put", v, probe.c, 0)
    /\ UNCHANGED <<containers, grabbers, grabber_states, last, cycles>>

NextContainer ==
    \/ \E v \in ProbeValues : Take(v)
    \/ \E v \in ProbeValues : Put(v)

SpecContainer == InitContainer /\ [][NextContainer]_vars

(***************************************************************************)
(* The volume in the environment: what the containers hold and what the    *)
(* grabbers carry.                                                         *)
(***************************************************************************)
RECURSIVE SumAmounts(_, _)
SumAmounts(cs, n) == IF n = 0 THEN 0 ELSE cs[n] + SumAmounts(cs, n - 1)

RECURSIVE SumVolumes(_, _)
SumVolumes(ss, n) == IF n = 0 THEN 0 ELSE ss[n].volume + SumVolumes(ss, n - 1)

TotalVolume(cs, ss) == SumAmounts(cs, Len(cs)) + SumVolumes(ss, Len(ss))

(***************************************************************************)
(* The environment driven with numbers beyond the range where the          *)
(* arithmetic is exact: amounts next to ExactLimit, durations above it,    *)
(* positive deltas below the unit in the last place of a duration.  The    *)
(* containers are created with a total of at most FloatTotal, under which  *)
(* no sum or difference of amounts is rounded up.                          *)
(***************************************************************************)
FloatAmounts == {3, ExactLimit - 1}
FloatVolumes == {1, 2}
FloatTimes == {ExactLimit + 4}
FloatDeltas == {1, 2}
FloatTotal == ExactLimit + 2

AddContainerFloat(c) ==
    /\ SumAmounts(containers, Len(containers)) + c <= FloatTotal
    /\ AddContainer(c)

GrabFloat(gid) ==
    LET r == grab(containers, grabbers, grabber_states, gid)
    IN  /\ containers' = r.containers
        /\ grabber_states' = r.grabber_states
        /\ last' = Call("grab", gid, r.ok, 0)
        /\ cycles' = AfterOther(cycles)
        /\ UNCHANGED <<grabbers, probe>>

UpdateFloat(dt) ==
    LET r == update(containers, grabbers, grabber_states, dt)
    IN  /\ containers' = r.containers
        /\ grabber_states' = r.grabber_states
        /\ last' = Call("update", 0, TRUE, 0)
        /\ cycles' = AfterOther(cycles)
        /\ UNCHANGED <<grabbers, probe>>

\* the driver advances by some positive delta
Advance == \E dt \in FloatDeltas : UpdateFloat(dt)

NextFloat ==
    \/ \E c \in FloatAmounts : AddContainerFloat(c)
    \/ \E volume \in FloatVolumes, time \in FloatTimes,
          source \in ContainerIds, target \in ContainerIds :
              AddGrabber(Grabber(volume, time, source, target))
    \/ \E gid \in GrabberIds : GrabFloat(gid)
    \/ Advance
    \/ \E c \in ContainerIds : VolumeOfContainer(c)

SpecFloat == Init /\ [][NextFloat]_vars

(***************************************************************************)
(* The same driver on a small environment, which keeps calling update: of  *)
(* every two steps it could take for ever, one is an update by a positive  *)
(* delta.                                                                  *)
(***************************************************************************)
LiveAmounts == {3}
LiveVolumes == {2}
LiveTimes == {ExactLimit, ExactLimit + 4}

AddContainerLive(c) ==
    /\ Len(containers) < LiveContainers
    /\ AddContainer(c)

NextLive ==
    \/ \E c \in LiveAmounts : AddContainerLive(c)
    \/ \E volume \in LiveVolumes, time \in LiveTimes,
          source \in ContainerIds, target \in ContainerIds :
              AddGrabber(Grabber(volume, time, source, target))
    \/ \E gid \in GrabberIds : GrabFloat(gid)
    \/ Advance
    \/ \E c \in ContainerIds : VolumeOfContainer(c)

SpecLive == Init /\ [][NextLive]_vars /\ WF_vars(Advance)

(***************************************************************************)
(* Readings of the state used by the properties below.                     *)
(***************************************************************************)
Min(a, b) == IF a <= b THEN a ELSE b

RemainingTime(gid) == At(grabber_states, gid).time
InTransitVolume(gid) == At(grabber_states, gid).volume
Capacity(gid) == At(grabbers, gid).volume
Duration(gid) == At(grabbers, gid).time
SourceOf(gid) == At(grabbers, gid).source
TargetOf(gid) == At(grabbers, gid).target
Flying(gid) == At(cycles, gid).phase = "flying"
Landed(gid) == At(cycles, gid).phase = "landed"

(***************************************************************************)
(* C1.  Busy exclusivity: once a grabber has been activated by a           *)
(* successful grab, a further grab of it made while its remaining time is  *)
(* not 0 returns Err and leaves every container amount, every grabber      *)
(* state and every grabber configuration unchanged.                        *)
(***************************************************************************)
C1_BusyExclusivity ==
    [][\A gid \in GrabberIds :
          (Flying(gid) /\ RemainingTime(gid) # 0 /\ Grab(gid))
              => /\ last'.ok = FALSE
                 /\ containers' = containers
                 /\ grabber_states' = grabber_states
                 /\ grabbers' = grabbers]_vars

\* a grab of an activated grabber, still in transit, has just returned Err
C1_Witness ==
    \E gid \in GrabberIds :
        /\ last = Call("grab", gid, FALSE, 0)
        /\ Flying(gid)
        /\ RemainingTime(gid) > 0
        /\ InTransitVolume(gid) > 0

(***************************************************************************)
(* C2.  Activation effect: grab of a grabber returns Ok exactly when its   *)
(* remaining time is 0; it then withdraws v2 = min(capacity, amount of the *)
(* source) from the source container, sets the in-transit volume to v2     *)
(* (which is at most the capacity) and the remaining time to the           *)
(* grabber's duration.                                                     *)
(***************************************************************************)
C2_ActivationEffect ==
    [][\A gid \in GrabberIds :
          Grab(gid) =>
              LET src == SourceOf(gid)
                  v2 == Min(Capacity(gid), At(containers, src))
              IN  /\ last'.ok <=> (RemainingTime(gid) = 0)
                  /\ RemainingTime(gid) = 0 =>
                        /\ containers' =
                               [containers EXCEPT ![src + 1] = @ - v2]
                        /\ grabber_states' =
                               [grabber_states EXCEPT
                                    ![gid + 1] = GrabberState(Duration(gid), v2)]
                        /\ v2 <= Capacity(gid)]_vars

\* a grab has just returned Ok and carries less than the capacity: the source
\* held less, and is now empty
C2_Witness ==
    \E gid \in GrabberIds :
        /\ last = Call("grab", gid, TRUE, 0)
        /\ InTransitVolume(gid) > 0
        /\ InTransitVolume(gid) < Capacity(gid)
        /\ RemainingTime(gid) = Duration(gid)
        /\ At(containers, SourceOf(gid)) = 0

(***************************************************************************)
(* C3.  Take semantics: taking v from a container holding amount: if       *)
(* v >= amount the container is left with 0 and the call returns amount;   *)
(* if v < amount the container is left with amount - v and the call        *)
(* returns v.                                                              *)
(***************************************************************************)
C3_TakeSemantics ==
    probe.op = "take" =>
        IF probe.v >= probe.before
        THEN probe.c = 0 /\ probe.ret = probe.before
        ELSE probe.c = probe.before - probe.v /\ probe.ret = probe.v

\* a take of less than the container holds has been made
C3_Witness ==
    /\ probe.op = "take"
    /\ probe.v > 0
    /\ probe.v < probe.before
    /\ probe.c > 0

\* what update(dt) puts into container c: the volumes of the grabbers, other
\* than skip, among the first n that land with c as their target
RECURSIVE PutInto(_, _, _, _, _, _)
PutInto(gs, ss, c, dt, skip, n) ==
    IF n = 0
    THEN 0
    ELSE LET j == n - 1
         IN  (IF j # skip /\ Lands(ss, j, dt) /\ At(gs, j).target = c
              THEN At(ss, j).volume
              ELSE 0) + PutInto(gs, ss, c, dt, skip, n - 1)

NoGrabber == 0 - 1

\* every grabber takes time to move: no duration is 0
AllTakeTime == \A gid \in GrabberIds : Duration(gid) > 0

(***************************************************************************)
(* C4.  Conservation over a full cycle, as claimed: for a grabber whose    *)
(* capacity is at least the amount of its source, after a successful grab  *)
(* followed by update calls with cumulative delta at least its duration    *)
(* and no other activity in between, the source has decreased by its       *)
(* amount before the grab and the target has increased by that amount.     *)
(* It is stated for environments whose grabbers all take time to move, so  *)
(* that its failure does not rest on a duration of 0.                      *)
(***************************************************************************)
C4_ConservationOverCycle ==
    \A gid \in GrabberIds :
        LET c == At(cycles, gid)
        IN  (/\ AllTakeTime
             /\ Landed(gid)
             /\ c.clean
             /\ c.elapsed >= Duration(gid)
             /\ Capacity(gid) >= c.src0)
                => /\ At(containers, SourceOf(gid)) = c.src0 - c.src0
                   /\ At(containers, TargetOf(gid)) = c.tgt0 + c.src0

(***************************************************************************)
(* C4 as amended: the same, for a grabber whose source and target are      *)
(* different containers.                                                   *)
(***************************************************************************)
C4_ConservationDistinct ==
    \A gid \in GrabberIds :
        LET c == At(cycles, gid)
        IN  (/\ Landed(gid)
             /\ c.clean
             /\ c.elapsed >= Duration(gid)
             /\ Capacity(gid) >= c.src0
             /\ SourceOf(gid) # TargetOf(gid))
                => /\ At(containers, SourceOf(gid)) = c.src0 - c.src0
                   /\ At(containers, TargetOf(gid)) = c.tgt0 + c.src0

\* a grabber of capacity above what its source held has landed all of it in
\* another container that was not empty
C4_Witness ==
    \E gid \in GrabberIds :
        LET c == At(cycles, gid)
        IN  /\ Landed(gid)
            /\ c.clean
            /\ last.op = "update"
            /\ SourceOf(gid) # TargetOf(gid)
            /\ c.src0 > 0
            /\ c.tgt0 > 0
            /\ Capacity(gid) > c.src0
            /\ Duration(gid) > 0
            /\ c.elapsed >= Duration(gid)

(***************************************************************************)
(* C5.  No early deposit, as claimed: after a successful grab of g, an     *)
(* update call that keeps the cumulative delta of the update calls since   *)
(* the grab below g's duration leaves the amount of g's target unchanged   *)
(* and g in transit (remaining time above 0).  It is stated for            *)
(* environments whose grabbers all take time to move, so that its failure  *)
(* does not rest on a duration of 0.                                       *)
(***************************************************************************)
C5_NoEarlyDeposit ==
    [][\A gid \in GrabberIds : \A dt \in Deltas :
          (/\ AllTakeTime
           /\ Flying(gid)
           /\ At(cycles, gid).clean
           /\ Update(dt)
           /\ At(cycles, gid).elapsed + dt < Duration(gid))
              => /\ At(containers', TargetOf(gid)) =
                        At(containers, TargetOf(gid))
                 /\ At(grabber_states', gid).time > 0]_vars

(***************************************************************************)
(* C5 as amended: such an update call leaves g in transit with its         *)
(* in-transit volume as it was, and changes the amount of g's target only  *)
(* by what the other grabbers that complete in the call put into it.       *)
(***************************************************************************)
C5_NoEarlyDepositOfOwn ==
    [][\A gid \in GrabberIds : \A dt \in Deltas :
          (/\ Flying(gid)
           /\ Update(dt)
           /\ At(cycles, gid).elapsed + dt < Duration(gid))
              => /\ At(grabber_states', gid).time > 0
                 /\ At(grabber_states', gid).volume = InTransitVolume(gid)
                 /\ At(containers', TargetOf(gid)) =
                        At(containers, TargetOf(gid))
                        + PutInto(grabbers, grabber_states, TargetOf(gid), dt,
                                  gid, Len(grabbers))]_vars

\* part of the duration has elapsed: the grabber still carries its volume and
\* its target holds what it held
C5_Witness ==
    \E gid \in GrabberIds :
        LET c == At(cycles, gid)
        IN  /\ last.op = "update"
            /\ Flying(gid)
            /\ c.clean
            /\ c.elapsed > 0
            /\ c.elapsed < Duration(gid)
            /\ RemainingTime(gid) > 0
            /\ InTransitVolume(gid) > 0
            /\ SourceOf(gid) # TargetOf(gid)
            /\ At(containers, TargetOf(gid)) = c.tgt0

(***************************************************************************)
(* C6.  All-or-nothing completion: in one update(dt) every grabber either  *)
(* keeps its in-transit volume (its remaining time, less dt, is still      *)
(* above 0) or puts the whole of it into its target, and is then left with *)
(* in-transit volume 0 and remaining time exactly 0, by however much dt    *)
(* exceeds the remaining time.  Every container gains exactly the volumes  *)
(* of the grabbers that complete into it.                                  *)
(***************************************************************************)
C6_AllOrNothing ==
    [][\A dt \in Deltas :
          Update(dt) =>
              /\ \A gid \in GrabberIds :
                    LET t == RemainingTime(gid) - dt
                    IN  At(grabber_states', gid) =
                            IF t > 0
                            THEN GrabberState(t, InTransitVolume(gid))
                            ELSE GrabberState(0, 0)
              /\ \A c \in ContainerIds :
                    At(containers', c) =
                        At(containers, c)
                        + PutInto(grabbers, grabber_states, c, dt, NoGrabber,
                                  Len(grabbers))]_vars

\* an update went past the duration of a grabber: its volume is in the target
\* and no time is left over
C6_Witness ==
    \E gid \in GrabberIds :
        LET c == At(cycles, gid)
        IN  /\ last.op = "update"
            /\ Landed(gid)
            /\ Duration(gid) > 0
            /\ c.elapsed > Duration(gid)
            /\ c.src0 > 0
            /\ RemainingTime(gid) = 0
            /\ InTransitVolume(gid) = 0
            /\ SourceOf(gid) # TargetOf(gid)
            /\ At(containers, TargetOf(gid)) > c.tgt0

(***************************************************************************)
(* C7.  Idle means empty, as claimed: in every reachable state a grabber   *)
(* whose remaining time is 0 has in-transit volume 0.                      *)
(***************************************************************************)
C7_IdleMeansEmpty ==
    \A gid \in GrabberIds :
        RemainingTime(gid) = 0 => InTransitVolume(gid) = 0

(***************************************************************************)
(* C8.  Non-negative volumes, as claimed: with containers created with     *)
(* non-negative amounts (the only ones the driver creates here), every     *)
(* container amount is at least 0 in every reachable state.  It is stated  *)
(* for environments whose grabbers all take time to move, so that its      *)
(* failure does not rest on a duration of 0.                               *)
(***************************************************************************)
C8_NonNegativeVolumes ==
    AllTakeTime => \A c \in ContainerIds : At(containers, c) >= 0

(***************************************************************************)
(* C8 as amended: the same, while every grabber created has a capacity of  *)
(* at least 0.                                                             *)
(***************************************************************************)
C8_NonNegativeVolumesGivenCapacities ==
    (\A gid \in GrabberIds : Capacity(gid) >= 0)
        => \A c \in ContainerIds : At(containers, c) >= 0

\* grabbers of capacity at least 0, one of capacity 0 among them, have moved
\* volume: one has landed what it took
C8_Witness ==
    /\ \A gid \in GrabberIds : Capacity(gid) >= 0
    /\ \E gid \in GrabberIds : Capacity(gid) = 0
    /\ \E gid \in GrabberIds :
          /\ Landed(gid)
          /\ At(cycles, gid).src0 > 0
          /\ Capacity(gid) > 0
    /\ \A c \in ContainerIds : At(containers, c) >= 0

(***************************************************************************)
(* The life cycle of a grabber, step by step.                              *)
(***************************************************************************)
\* a grabber is created idle
StartsIdle ==
    Len(grabber_states') > Len(grabber_states)
        => grabber_states'[Len(grabber_states')].time = 0

\* a grabber goes from idle to in transit only in a successful grab of it
IdleToInTransitOnlyByGrab ==
    \A gid \in GrabberIds :
        (RemainingTime(gid) = 0 /\ At(grabber_states', gid).time > 0)
            => Grab(gid) /\ last'.ok

\* a grabber goes from in transit to idle only in an update, and only once
\* the deltas since its grab have reached its duration
InTransitToIdleOnlyByUpdate ==
    \A gid \in GrabberIds :
        (RemainingTime(gid) > 0 /\ At(grabber_states', gid).time = 0)
            => \E dt \in Deltas :
                  /\ Update(dt)
                  /\ Flying(gid)
                  /\ At(cycles, gid).elapsed + dt >= Duration(gid)

\* every grabber with time remaining was put in transit by a grab
InTransitByGrab ==
    \A gid \in GrabberIds :
        /\ RemainingTime(gid) >= 0
        /\ RemainingTime(gid) > 0 => Flying(gid)

BackwardUpdate == \E dt \in Deltas : dt < 0 /\ Update(dt)

(***************************************************************************)
(* C9.  Two-state life cycle, as claimed: every grabber starts idle        *)
(* (remaining time 0); it goes from idle to in transit (remaining time     *)
(* above 0) only in a successful grab of it, and from in transit to idle   *)
(* only in an update, once the time elapsed since its grab has reached its *)
(* duration.  No other call, and no update of an idle grabber, changes     *)
(* which of the two states it is in.                                       *)
(***************************************************************************)
C9_LifeCycle ==
    [][/\ StartsIdle
       /\ IdleToInTransitOnlyByGrab
       /\ InTransitToIdleOnlyByUpdate]_vars

(***************************************************************************)
(* C9 as amended: the same, as long as no update is called with a negative *)
(* delta.  (Stated inductively: from a state in which every grabber in     *)
(* transit was put there by a grab, a step that is not an update by a      *)
(* negative delta obeys the life cycle and leads to such a state.)         *)
(***************************************************************************)
C9_LifeCycleForward ==
    [][(InTransitByGrab /\ ~BackwardUpdate)
          => /\ StartsIdle
             /\ IdleToInTransitOnlyByGrab
             /\ InTransitToIdleOnlyByUpdate
             /\ InTransitByGrab']_vars

\* a grabber has gone from idle to in transit and back: an update that brought
\* the elapsed time to its duration has just landed it
C9_Witness ==
    \E gid \in GrabberIds :
        /\ last.op = "update"
        /\ Landed(gid)
        /\ Duration(gid) > 0
        /\ At(cycles, gid).elapsed = Duration(gid)
        /\ RemainingTime(gid) = 0
        /\ InTransitByGrab

(***************************************************************************)
(* Where the arithmetic of an update is exact.                             *)
(***************************************************************************)
\* the volumes carried by those of the first n grabbers whose target is c
RECURSIVE Inbound(_, _, _, _)
Inbound(gs, ss, c, n) ==
    IF n = 0
    THEN 0
    ELSE (IF At(gs, n - 1).target = c THEN At(ss, n - 1).volume ELSE 0)
         + Inbound(gs, ss, c, n - 1)

\* no container amount, with all that is carried to it, leaves the range
\* 0..ExactLimit, in which every sum is exact
ExactSums ==
    /\ \A gid \in GrabberIds : InTransitVolume(gid) >= 0
    /\ \A c \in ContainerIds :
          /\ At(containers, c) >= 0
          /\ At(containers, c)
                 + Inbound(grabbers, grabber_states, c, Len(grabbers))
                     <= ExactLimit

\* no remaining time is above ExactLimit: the difference of a remaining time
\* and a delta of that range is exact
ExactTimes == \A gid \in GrabberIds : RemainingTime(gid) <= ExactLimit

(***************************************************************************)
(* C10.  Order independence of update, as claimed: in every state and for  *)
(* every delta, the containers and grabber states that update produces are *)
(* the same whatever the order in which the loop goes through the          *)
(* grabbers, also when several grabbers complete in the call and share a   *)
(* target, or when the target of one is the source of another.             *)
(***************************************************************************)
Orders(n) ==
    {o \in [1..n -> 0..(n - 1)] : \A i, j \in 1..n : i # j => o[i] # o[j]}

C10_OrderIndependence ==
    \A dt \in Deltas : \A o \in Orders(Len(grabbers)) :
        update_loop(containers, grabbers, grabber_states, o, 1, dt)
            = update(containers, grabbers, grabber_states, dt)

(***************************************************************************)
(* C10 as amended: the same, in the states where the sums put into the     *)
(* containers are exact.                                                   *)
(***************************************************************************)
C10_OrderIndependenceExact ==
    ExactSums =>
        \A dt \in Deltas : \A o \in Orders(Len(grabbers)) :
            update_loop(containers, grabbers, grabber_states, o, 1, dt)
                = update(containers, grabbers, grabber_states, dt)

\* two grabbers carry different volumes to the same container, which is the
\* source of one of them, and an update by some delta completes both; the
\* sums are exact
C10_Witness ==
    \E g, h \in GrabberIds : \E dt \in Deltas :
        /\ g # h
        /\ TargetOf(g) = TargetOf(h)
        /\ SourceOf(h) = TargetOf(g)
        /\ InTransitVolume(g) > 0
        /\ InTransitVolume(h) > 0
        /\ InTransitVolume(g) # InTransitVolume(h)
        /\ Lands(grabber_states, g, dt)
        /\ Lands(grabber_states, h, dt)
        /\ At(containers, TargetOf(g)) > 0
        /\ ExactSums

(***************************************************************************)
(* Re-activation after completion, step by step.                           *)
(***************************************************************************)
\* the update that brings the deltas since the grab of gid to its duration
\* leaves gid idle, with nothing in transit
CompletesWhenDue(gid) ==
    \A dt \in Deltas :
        (/\ Flying(gid)
         /\ Update(dt)
         /\ At(cycles, gid).elapsed + dt >= Duration(gid))
            => At(grabber_states', gid) = GrabberState(0, 0)

\* an idle grabber stays idle until a grab of it succeeds
IdleUntilGrab(gid) ==
    RemainingTime(gid) = 0
        => \/ At(grabber_states', gid).time = 0
           \/ Grab(gid) /\ last'.ok

\* a grab of an idle grabber returns Ok and withdraws from the source what
\* take gives for the capacity
GrabOfIdleWithdraws(gid) ==
    (RemainingTime(gid) = 0 /\ Grab(gid))
        => LET src == SourceOf(gid)
               t == take(At(containers, src), Capacity(gid))
           IN  /\ last'.ok
               /\ At(containers', src) = t.amount
               /\ At(grabber_states', gid) = GrabberState(Duration(gid), t.ret)

(***************************************************************************)
(* C11.  Re-activation after completion, as claimed: once the deltas of    *)
(* the update calls since the successful grab of a grabber have reached    *)
(* its duration, the grabber is idle, and the next grab of it returns Ok   *)
(* and withdraws again from the source by the take policy.  A grabber      *)
(* that has completed its cycle stays idle until that grab.  It is stated   *)
(* for environments whose grabbers all take time to move, so that its      *)
(* failure does not rest on a duration of 0.                               *)
(***************************************************************************)
C11_Reactivation ==
    [][AllTakeTime =>
          \A gid \in GrabberIds :
              /\ CompletesWhenDue(gid)
              /\ Landed(gid) => IdleUntilGrab(gid)
              /\ GrabOfIdleWithdraws(gid)]_vars

(***************************************************************************)
(* C11 as amended: the same, as long as no update is called with a         *)
(* negative delta; then every idle grabber stays idle until a grab of it.  *)
(***************************************************************************)
C11_ReactivationForward ==
    [][~BackwardUpdate =>
          \A gid \in GrabberIds :
              /\ CompletesWhenDue(gid)
              /\ IdleUntilGrab(gid)
              /\ GrabOfIdleWithdraws(gid)]_vars

\* the only grabber has put a cycle's volume in its target, which holds more
\* than a container is created with, and a further grab of it has just
\* returned Ok and withdrawn again
C11_Witness ==
    /\ Len(grabbers) = 1
    /\ last = Call("grab", 0, TRUE, 0)
    /\ Duration(0) > 0
    /\ SourceOf(0) # TargetOf(0)
    /\ At(containers, TargetOf(0)) > MaxAmount
    /\ InTransitVolume(0) > 0
    /\ RemainingTime(0) = Duration(0)

(***************************************************************************)
(* What a grabber carries, step by step.                                   *)
(***************************************************************************)
\* update(dt) completes grabber g
Completes(g, dt) == Update(dt) /\ Lands(grabber_states, g, dt)

\* the volume g carries changes only in the update that completes g or in a
\* successful grab of g itself
CarriedUntilCompleted(g) ==
    At(grabber_states', g).volume # InTransitVolume(g)
        => \/ \E dt \in Deltas : Completes(g, dt)
           \/ Grab(g) /\ last'.ok

\* a grab of another grabber h leaves the state of g as it is and withdraws
\* from the source of h no more than that container holds, whatever g
\* carries; no other container changes
OtherGrabWithdrawsFromContainer(g, h) ==
    Grab(h) =>
        LET src == SourceOf(h)
            w == At(containers, src) - At(containers', src)
        IN  /\ At(grabber_states', g) = At(grabber_states, g)
            /\ w >= 0
            /\ w <= At(containers, src)
            /\ \A c \in ContainerIds : c # src =>
                   At(containers', c) = At(containers, c)

\* an update that does not complete g adds to the target of g only what the
\* other grabbers it completes carry
NotInTargetUntilCompleted(g) ==
    \A dt \in Deltas :
        (Update(dt) /\ ~Lands(grabber_states, g, dt))
            => At(containers', TargetOf(g)) =
                   At(containers, TargetOf(g))
                   + PutInto(grabbers, grabber_states, TargetOf(g), dt, g,
                             Len(grabbers))

C13_IdleUntouched ==
    [][\A g \in GrabberIds : \A dt \in Deltas :
          (AllTakeTime /\ RemainingTime(g) = 0 /\ Update(dt))
              => /\ At(grabber_states', g) = At(grabber_states, g)
                 /\ At(grabber_states', g) = GrabberState(0, 0)
                 /\ At(containers', TargetOf(g)) =
                        At(containers, TargetOf(g))
                        + PutInto(grabbers, grabber_states, TargetOf(g), dt,
                                  g, Len(grabbers))]_vars

(***************************************************************************)
(* C13 as amended: for dt >= 0, update(dt) leaves a grabber whose          *)
(* remaining time is 0 with remaining time 0 and in-transit volume 0, and  *)
(* adds to its target the in-transit volume it had: nothing, and the state *)
(* is unchanged, when that volume is 0.                                    *)
(***************************************************************************)
C13_IdleUntouchedForward ==
    [][\A g \in GrabberIds : \A dt \in Deltas :
          (dt >= 0 /\ RemainingTime(g) = 0 /\ Update(dt))
              => /\ At(grabber_states', g) = GrabberState(0, 0)
                 /\ InTransitVolume(g) = 0 =>
                        At(grabber_states', g) = At(grabber_states, g)
                 /\ At(containers', TargetOf(g)) =
                        At(containers, TargetOf(g))
                        + InTransitVolume(g)
                        + PutInto(grabbers, grabber_states, TargetOf(g), dt,
                                  g, Len(grabbers))]_vars

\* an update has completed grabber h while grabber g, which takes time to
\* move, had no cycle under way: g is idle and empty, and its target, which
\* is not the target of h, holds nothing
C13_Witness ==
    \E g, h \in GrabberIds :
        /\ g # h
        /\ last.op = "update"
        /\ At(cycles, g).phase = "none"
        /\ Duration(g) > 0
        /\ At(grabber_states, g) = GrabberState(0, 0)
        /\ At(containers, TargetOf(g)) = 0
        /\ TargetOf(h) # TargetOf(g)
        /\ Landed(h)
        /\ At(cycles, h).src0 > 0

(***************************************************************************)
(* Frames, step by step.                                                   *)
(***************************************************************************)
\* a successful grab of g changes no container but the source of g and no
\* grabber state but that of g
GrabFrame(g) ==
    (Grab(g) /\ last'.ok)
        => /\ \A c \in ContainerIds : c # SourceOf(g) =>
                  At(containers', c) = At(containers, c)
           /\ \A h \in GrabberIds : h # g =>
                  At(grabber_states', h) = At(grabber_states, h)
           /\ Len(containers') = Len(containers)
           /\ Len(grabber_states') = Len(grabber_states)
           /\ grabbers' = grabbers

\* no step changes the configuration of a grabber that exists
ConfigurationKept ==
    \A g \in GrabberIds : At(grabbers', g) = At(grabbers, g)

\* volume_of_container changes nothing of the environment
QueryFrame ==
    \A c \in ContainerIds : VolumeOfContainer(c) => env' = env

(***************************************************************************)
(* C14.  Frame of grab: a successful grab of g changes only the amount of  *)
(* the source of g and the state of g; every other container amount,       *)
(* every other grabber state and every grabber configuration (capacity,    *)
(* duration, source, target) are unchanged.  No call changes the           *)
(* configuration of a grabber after its creation, and volume_of_container  *)
(* changes nothing.                                                        *)
(***************************************************************************)
C14_GrabFrame ==
    [][/\ \A g \in GrabberIds : GrabFrame(g)
       /\ ConfigurationKept
       /\ QueryFrame]_vars

\* a grab of g has just returned Ok and taken a volume from its source,
\* while another grabber is in transit with a volume and the target of g,
\* another container, holds what it held before the grab
C14_Witness ==
    \E g, h \in GrabberIds :
        /\ g # h
        /\ last = Call("grab", g, TRUE, 0)
        /\ InTransitVolume(g) > 0
        /\ SourceOf(g) # TargetOf(g)
        /\ At(cycles, g).tgt0 > 0
        /\ At(containers, TargetOf(g)) = At(cycles, g).tgt0
        /\ RemainingTime(h) > 0
        /\ RemainingTime(h) < Duration(h)
        /\ InTransitVolume(h) > 0

(***************************************************************************)
(* Creation and handles, step by step.                                     *)
(***************************************************************************)
\* add_container returns the number of containers created before it, and
\* that handle denotes the container it was given; it changes no container
\* that exists, no grabber and no grabber state
AddContainerAppends ==
    \A c \in Amounts :
        AddContainer(c)
            => /\ last'.ret = Len(containers)
               /\ Len(containers') = Len(containers) + 1
               /\ At(containers', last'.ret) = c
               /\ \A id \in ContainerIds :
                      At(containers', id) = At(containers, id)
               /\ grabbers' = grabbers
               /\ grabber_states' = grabber_states

\* add_grabber returns the number of grabbers created before it, and that
\* handle denotes the grabber it was given, with an idle state; it changes
\* no grabber and no grabber state that exists, and no container
AddGrabberAppends ==
    \A volume \in Volumes, time \in Times,
       source \in ContainerIds, target \in ContainerIds :
        AddGrabber(Grabber(volume, time, source, target))
            => /\ last'.ret = Len(grabbers)
               /\ Len(grabbers') = Len(grabbers) + 1
               /\ At(grabbers', last'.ret) =
                      Grabber(volume, time, source, target)
               /\ At(grabber_states', last'.ret) = GrabberState(0, 0)
               /\ \A id \in GrabberIds :
                      /\ At(grabbers', id) = At(grabbers, id)
                      /\ At(grabber_states', id) = At(grabber_states, id)
               /\ containers' = containers

\* a handle given out stays in range and denotes the grabber it was given
\* out for; only a creation adds a handle, one at a time
HandlesStable ==
    /\ Len(containers') >= Len(containers)
    /\ Len(grabbers') >= Len(grabbers)
    /\ \A id \in GrabberIds : At(grabbers', id) = At(grabbers, id)
    /\ Len(containers') # Len(containers) => last'.op = "add_container"
    /\ Len(grabbers') # Len(grabbers) => last'.op = "add_grabber"

\* every grabber has its state, before and after the step
StatesPaired ==
    /\ Len(grabber_states) = Len(grabbers)
    /\ Len(grabber_states') = Len(grabbers')

(***************************************************************************)
(* C15.  Stable handles and paired state: add_container and add_grabber    *)
(* return the number of entities of that kind created before (the          *)
(* insertion index); after any later calls the handle denotes the same     *)
(* entity; no two creations return the same handle (the number of          *)
(* entities never goes down and goes up by one in a creation); there are   *)
(* always as many grabber states as grabbers; a new grabber has state      *)
(* {time 0, volume 0}; a creation changes no existing container amount or  *)
(* grabber state.                                                          *)
(***************************************************************************)
C15_StableHandles ==
    [][/\ AddContainerAppends
       /\ AddGrabberAppends
       /\ HandlesStable
       /\ StatesPaired]_vars

\* add_grabber has just returned handle 1 for a second grabber, idle and
\* empty, while the first is in transit, part of its way, with a volume
C15_Witness ==
    /\ last = Call("add_grabber", 0, TRUE, 1)
    /\ Len(grabbers) = 2
    /\ Len(grabber_states) = 2
    /\ At(grabber_states, 1) = GrabberState(0, 0)
    /\ RemainingTime(0) > 0
    /\ RemainingTime(0) < Duration(0)
    /\ InTransitVolume(0) > 0

\* the step is a grab or an update
GrabOrUpdate ==
    \/ \E gid \in GrabberIds : Grab(gid)
    \/ \E dt \in Deltas : Update(dt)

(***************************************************************************)
(* C16.  Global conservation of volume, as claimed: with non-negative      *)
(* amounts, capacities and durations (a duration of 0 included), no grab   *)
(* and no update changes the sum of the container amounts and the          *)
(* in-transit volumes, and a successful grab never overwrites an           *)
(* in-transit volume that is not 0.                                        *)
(***************************************************************************)
C16_GlobalConservation ==
    [][/\ GrabOrUpdate =>
              TotalVolume(containers', grabber_states')
                  = TotalVolume(containers, grabber_states)
       /\ \A gid \in GrabberIds :
              (Grab(gid) /\ last'.ok) => InTransitVolume(gid) = 0]_vars

(***************************************************************************)
(* update(a) then update(b), and update(a + b) with the sum the caller     *)
(* computes.                                                               *)
(***************************************************************************)
update_twice(cs, gs, ss, a, b) ==
    LET r == update(cs, gs, ss, a)
    IN  update(r.containers, gs, r.grabber_states, b)

update_sum(cs, gs, ss, a, b) == update(cs, gs, ss, Round(a + b))

\* every grabber with remaining time 0 carries nothing
IdleAreEmpty ==
    \A gid \in GrabberIds :
        RemainingTime(gid) = 0 => InTransitVolume(gid) = 0

\* update(0) changes nothing where the idle grabbers are empty
ZeroUpdateKeeps ==
    IdleAreEmpty =>
        update(containers, grabbers, grabber_states, 0)
            = [containers |-> containers, grabber_states |-> grabber_states]

(***************************************************************************)
(* C17.  Additivity of update, as claimed: for deltas a, b >= 0 and any    *)
(* state, update(a) then update(b) gives the container amounts and the     *)
(* grabber states of one update(a + b); update(0) changes nothing in a     *)
(* state whose idle grabbers are empty.                                    *)
(***************************************************************************)
C17_Additivity ==
    /\ \A a \in FloatDeltas, b \in FloatDeltas :
          update_twice(containers, grabbers, grabber_states, a, b)
              = update_sum(containers, grabbers, grabber_states, a, b)
    /\ ZeroUpdateKeeps

(***************************************************************************)
(* C17 as amended: the same for a and b, in the states where the           *)
(* differences of the remaining times and the deltas and the sums put into *)
(* the containers are exact.                                               *)
(***************************************************************************)
C17_AdditivityExact ==
    /\ (ExactTimes /\ ExactSums) =>
          \A a \in FloatDeltas, b \in FloatDeltas :
              update_twice(containers, grabbers, grabber_states, a, b)
                  = update_sum(containers, grabbers, grabber_states, a, b)
    /\ ZeroUpdateKeeps

\* after an update, where the arithmetic is exact, a grabber carries a volume
\* with a remaining time that update(1) leaves above 0 and update(1 + 2)
\* does not, while another has a remaining time that both leave above 0
C17_Witness ==
    /\ last.op = "update"
    /\ ExactTimes
    /\ ExactSums
    /\ \E g, h \in GrabberIds :
          /\ InTransitVolume(g) > 0
          /\ RemainingTime(g) > 1
          /\ RemainingTime(g) <= 3
          /\ RemainingTime(h) > 3

(***************************************************************************)
(* Delivery, step by step and in the end.                                  *)
(***************************************************************************)
AllGrabberIds == 0..(MaxGrabbers - 1)

InTransit(g) == g \in GrabberIds /\ RemainingTime(g) > 0

Idle(g) == g \in GrabberIds /\ RemainingTime(g) = 0

\* a grabber in transit becomes idle only in an update, which leaves it
\* empty and its target with what it held and what the grabbers completed
\* in that update carried to it
DeliveredWhenIdle ==
    \A g \in GrabberIds :
        (RemainingTime(g) > 0 /\ At(grabber_states', g).time = 0)
            => \E dt \in FloatDeltas :
                  /\ UpdateFloat(dt)
                  /\ At(grabber_states', g).volume = 0
                  /\ At(containers', TargetOf(g)) =
                         At(containers, TargetOf(g))
                         + PutInto(grabbers, grabber_states, TargetOf(g), dt,
                                   NoGrabber, Len(grabbers))

(***************************************************************************)
(* C18.  Eventual delivery, as claimed: while the driver keeps calling     *)
(* update with deltas above 0, every grabber in transit becomes idle in    *)
(* the end, and at that moment all it carried has been added to its        *)
(* target; no grabber stays in transit for ever.                           *)
(***************************************************************************)
C18_EventualDelivery ==
    /\ \A g \in AllGrabberIds : InTransit(g) ~> Idle(g)
    /\ [][DeliveredWhenIdle]_vars

(***************************************************************************)
(* C18 as amended: the same for a grabber whose remaining time is in the   *)
(* range where subtracting the deltas from it is exact, so that every      *)
(* update brings it down.                                                  *)
(***************************************************************************)
C18_EventualDeliveryExact ==
    /\ \A g \in AllGrabberIds :
          (InTransit(g) /\ RemainingTime(g) <= ExactLimit) ~> Idle(g)
    /\ [][DeliveredWhenIdle]_vars

\* an update has completed one grabber, which is idle and empty with its
\* volume in its target, while another is still in transit with a volume
C18_Witness ==
    \E g, h \in GrabberIds :
        /\ g # h
        /\ last.op = "update"
        /\ At(grabber_states, g) = GrabberState(0, 0)
        /\ RemainingTime(h) > 0
        /\ RemainingTime(h) <= ExactLimit
        /\ InTransitVolume(h) > 0
        /\ TargetOf(g) = SourceOf(g)
        /\ SourceOf(h) = SourceOf(g)
        /\ At(containers, TargetOf(g)) = Capacity(g)

=============================================================================
